---- MODULE Spec2Model ----
(***************************************************************************)
(* PuCo: puco/connection.py, class PusherConsumer.                         *)
(*                                                                         *)
(* One session object over one pika.SelectConnection.  The session keeps   *)
(* two channel handles and five optional caller callbacks.  Everything     *)
(* runs on the single thread of the engine's ioloop: a notification        *)
(* handler, the callback it dispatches and whatever public method that     *)
(* callback calls back into the session form one uninterrupted step.       *)
(***************************************************************************)
EXTENDS Integers, Sequences, FiniteSets, TLC

VARIABLES
    ecb,              \* which of the five __ecb_* slots hold a callable
    publish_channel,  \* self.__publish_channel  (None or a channel number)
    consum_channel,   \* self.__consum_channel   (None or a channel number)
    connection,       \* the engine's side of self.__connection
    ioloop,           \* self.__connection.ioloop
    channels,         \* channel-open requests, in submission order
    opened,           \* channel numbers whose open notification was delivered
    requests,         \* request calls made on channel handles, in order
    calls,            \* invocations of caller callbacks, in order
    deliveries,       \* messages the engine delivered, in order
    ncalls,           \* disconnect/publish/register calls made from outside the loop
    last              \* what the latest step was and how it ended

vars == <<ecb, publish_channel, consum_channel, connection, ioloop, channels,
          opened, requests, calls, deliveries, ncalls, last>>

(***************************************************************************)
(* Bounds of the model.                                                    *)
(***************************************************************************)
MaxDeliveries == 2
MaxExternalCalls == 1

(***************************************************************************)
(* Values.                                                                 *)
(***************************************************************************)
None == 0

Slots == {"publish_channel_has_been_opend", "consum_channel_has_been_opend",
          "message_received", "connection_open_error", "connection_closed"}

rabbitmq_exchange == "orders"
rabbitmq_exchange_type == "topic"

Reasons == {"reason_a", "reason_b"}
Errors == {"error_a"}
Bodies == {"order-42"}
RoutingKeys == {"orders.created"}
Queues == {"order-queue"}

\* What a caller callback may do when it is invoked: return, raise an
\* Exception, raise a BaseException that is no Exception (SystemExit,
\* KeyboardInterrupt), or call one of the session's public methods.
Behaviours == {"return", "raise", "exit", "publish", "register", "disconnect"}

NoInner == [op |-> "none", chan |-> None, exc |-> "none", submitted |-> 0]

\* The argument a callback that publishes or registers passes on.
CallbackMessage == "order-42"
CallbackRoutingKey == "orders.created"
CallbackQueue == "order-queue"
CallbackBinding == "orders.*"

\* 'except Exception' catches these; SystemExit derives from BaseException only.
IsException(e) == e \in {"Exception", "AttributeError", "TypeError"}

(***************************************************************************)
(* The session as the code of one step sees it.  exc is the exception in   *)
(* flight, caught the exception the dispatch helper swallowed, inner the   *)
(* public method a callback called, ran what the invoked callback did.     *)
(***************************************************************************)
Session ==
    [ecb |-> ecb, publish_channel |-> publish_channel, consum_channel |-> consum_channel,
     ioloop |-> ioloop, channels |-> channels, requests |-> requests,
     calls |-> calls, exc |-> "none", caught |-> "none", ran |-> "none",
     inner |-> NoInner]

Raise(s, e) == [s EXCEPT !.exc = e]

Submit(s, r) == [s EXCEPT !.requests = Append(@, r)]

(***************************************************************************)
(* connect / disconnect                                                    *)
(***************************************************************************)
connect(s) == [s EXCEPT !.ioloop = "running"]

\* Variant: disconnect() that never reaches ioloop.stop().
disconnect_NoStop(s) == s

\* Variant: disconnect() that also drops the channel handles.
disconnect_DropsHandles(s) ==
    [s EXCEPT !.ioloop = IF @ = "running" THEN "stopping" ELSE @,
              !.publish_channel = None, !.consum_channel = None]

disconnect(s) == [s EXCEPT !.ioloop = IF @ = "running" THEN "stopping" ELSE @]

(***************************************************************************)
(* Public methods                                                          *)
(***************************************************************************)
\* Variant: a register that returns quietly when the consume channel is absent.
register_consumer_queue_Silent(s, queue, routing_key) ==
    IF s.consum_channel = None
    THEN s
    ELSE LET ch == s.consum_channel
             s1 == Submit(s, [op |-> "queue_declare", ch |-> ch, queue |-> queue])
             s2 == Submit(s1, [op |-> "queue_bind", ch |-> ch,
                               exchange |-> rabbitmq_exchange, queue |-> queue,
                               routing_key |-> routing_key])
         IN  Submit(s2, [op |-> "basic_consume", ch |-> ch, queue |-> queue,
                         on_message_callback |-> "icb_message_received_inform_callback"])

\* Variant: a register that binds the queue before declaring it.
register_consumer_queue_BindFirst(s, queue, routing_key) ==
    IF s.consum_channel = None
    THEN Raise(s, "AttributeError")
    ELSE LET ch == s.consum_channel
             s1 == Submit(s, [op |-> "queue_bind", ch |-> ch,
                              exchange |-> rabbitmq_exchange, queue |-> queue,
                              routing_key |-> routing_key])
             s2 == Submit(s1, [op |-> "queue_declare", ch |-> ch, queue |-> queue])
         IN  Submit(s2, [op |-> "basic_consume", ch |-> ch, queue |-> queue,
                         on_message_callback |-> "icb_message_received_inform_callback"])

register_consumer_queue_for_routing_key(s, queue, routing_key) ==
    IF s.consum_channel = None
    THEN Raise(s, "AttributeError")
    ELSE LET ch == s.consum_channel
             s1 == Submit(s, [op |-> "queue_declare", ch |-> ch, queue |-> queue])
             s2 == Submit(s1, [op |-> "queue_bind", ch |-> ch,
                               exchange |-> rabbitmq_exchange, queue |-> queue,
                               routing_key |-> routing_key])
         IN  Submit(s2, [op |-> "basic_consume", ch |-> ch, queue |-> queue,
                         on_message_callback |-> "icb_message_received_inform_callback"])

\* Variant: a publish that returns quietly when the publish channel is absent.
publish_message_Silent(s, message, routing_key) ==
    IF s.publish_channel = None
    THEN s
    ELSE Submit(s, [op |-> "basic_publish", ch |-> s.publish_channel,
                    exchange |-> rabbitmq_exchange, routing_key |-> routing_key,
                    body |-> message, delivery_mode |-> 2])

\* Variant: a publish that goes out on the consume channel.
publish_message_OnConsumChannel(s, message, routing_key) ==
    IF s.publish_channel = None
    THEN Raise(s, "AttributeError")
    ELSE Submit(s, [op |-> "basic_publish", ch |-> s.consum_channel,
                    exchange |-> rabbitmq_exchange, routing_key |-> routing_key,
                    body |-> message, delivery_mode |-> 2])

publish_message_for_routing_key(s, message, routing_key) ==
    IF s.publish_channel = None
    THEN Raise(s, "AttributeError")
    ELSE Submit(s, [op |-> "basic_publish", ch |-> s.publish_channel,
                    exchange |-> rabbitmq_exchange, routing_key |-> routing_key,
                    body |-> message, delivery_mode |-> 2])

(***************************************************************************)
(* The caller's callback: what its body does to the session.               *)
(***************************************************************************)
Entered(s, op, chan, t) ==
    [t EXCEPT !.inner = [op |-> op, chan |-> chan, exc |-> t.exc,
                         submitted |-> Len(t.requests) - Len(s.requests)]]

Invoke(s, b) ==
    CASE b = "return"     -> s
      [] b = "raise"      -> Raise(s, "Exception")
      [] b = "exit"       -> Raise(s, "SystemExit")
      [] b = "publish"    ->
            Entered(s, "publish", s.publish_channel,
                    publish_message_for_routing_key(s, CallbackMessage, CallbackRoutingKey))
      [] b = "register"   ->
            Entered(s, "register", s.consum_channel,
                    register_consumer_queue_for_routing_key(s, CallbackQueue, CallbackBinding))
      [] b = "disconnect" -> Entered(s, "disconnect", None, disconnect(s))

(***************************************************************************)
(* __callback(callback, *args)                                             *)
(***************************************************************************)
\* Variant: the callback is invoked without the try/except around it.
callback_NoFaultBoundary(s, slot, args, b) ==
    IF ~s.ecb[slot]
    THEN s
    ELSE Invoke([s EXCEPT !.calls = Append(@, [callback |-> slot, args |-> args]),
                          !.ran = b], b)

\* Variant: the slot is invoked without the 'if callback' test.
callback_NoPresenceTest(s, slot, args, b) ==
    LET s1 == [s EXCEPT !.calls = Append(@, [callback |-> slot, args |-> args]),
                        !.ran = b]
        s2 == Invoke(s1, b)
    IN  IF IsException(s2.exc)
        THEN [s2 EXCEPT !.exc = "none", !.caught = s2.exc]
        ELSE s2

callback(s, slot, args, b) ==
    IF ~s.ecb[slot]
    THEN s
    ELSE LET s1 == [s EXCEPT !.calls = Append(@, [callback |-> slot, args |-> args]),
                             !.ran = b]
             s2 == Invoke(s1, b)
         IN  IF IsException(s2.exc)
             THEN [s2 EXCEPT !.exc = "none", !.caught = s2.exc]
             ELSE s2

(***************************************************************************)
(* Connection callbacks                                                    *)
(***************************************************************************)
on_connection_open(s) ==
    [s EXCEPT !.channels = @ \o <<"on_publish_channel_open", "on_consum_channel_open">>]

\* Variant: the error handler asks for the channels as the open handler does.
on_connection_open_error_OpensChannels(s, error, b) ==
    callback(on_connection_open(s), "connection_open_error", <<error>>, b)

on_connection_open_error(s, error, b) ==
    callback(s, "connection_open_error", <<error>>, b)

on_connection_closed(s, reason, b) ==
    LET s1 == callback(s, "connection_closed", <<reason>>, b)
    IN  IF s1.exc # "none"
        THEN s1
        ELSE [s1 EXCEPT !.publish_channel = None, !.consum_channel = None]

(***************************************************************************)
(* Channel callbacks                                                       *)
(***************************************************************************)
\* channel.exchange_declare: the engine takes the request, or raises.
exchange_declare(s, ch, accepted) ==
    IF accepted
    THEN Submit(s, [op |-> "exchange_declare", ch |-> ch,
                    exchange |-> rabbitmq_exchange,
                    exchange_type |-> rabbitmq_exchange_type, durable |-> TRUE])
    ELSE Raise(s, "TypeError")

\* Variant: the ready-callback is dispatched before the handle is stored.
on_publish_channel_open_CallbackFirst(s, channel, accepted, b) ==
    LET s1 == callback(s, "publish_channel_has_been_opend", <<>>, b)
        s2 == [s1 EXCEPT !.publish_channel = channel]
    IN  IF s1.exc # "none"
        THEN s1
        ELSE exchange_declare(s2, s2.publish_channel, accepted)

on_publish_channel_open(s, channel, accepted, b) ==
    LET s1 == [s EXCEPT !.publish_channel = channel]
        s2 == exchange_declare(s1, s1.publish_channel, accepted)
    IN  IF s2.exc # "none"
        THEN s2
        ELSE callback(s2, "publish_channel_has_been_opend", <<>>, b)

\* Variant: the consume handler stores its channel in the publish handle.
on_consum_channel_open_WrongHandle(s, channel, accepted, b) ==
    LET s1 == [s EXCEPT !.publish_channel = channel]
        s2 == exchange_declare(s1, s1.publish_channel, accepted)
    IN  IF s2.exc # "none"
        THEN s2
        ELSE callback(s2, "consum_channel_has_been_opend", <<>>, b)

on_consum_channel_open(s, channel, accepted, b) ==
    LET s1 == [s EXCEPT !.consum_channel = channel]
        s2 == exchange_declare(s1, s1.consum_channel, accepted)
    IN  IF s2.exc # "none"
        THEN s2
        ELSE callback(s2, "consum_channel_has_been_opend", <<>>, b)

\* Variant: the message handler forwards the body and drops the rest.
icb_message_received_BodyOnly(s, channel, method, properties, body, b) ==
    callback(s, "message_received", <<body>>, b)

icb_message_received_inform_callback(s, channel, method, properties, body, b) ==
    callback(s, "message_received", <<channel, method, properties, body>>, b)

(***************************************************************************)
(* Steps.                                                                  *)
(***************************************************************************)
Dispatching == ioloop \in {"running", "stopping"}

Step(op, arg, s) ==
    [op |-> op, arg |-> arg, ran |-> s.ran, exc |-> s.exc, caught |-> s.caught,
     inner |-> s.inner]

Store(s) ==
    /\ publish_channel' = s.publish_channel
    /\ consum_channel' = s.consum_channel
    /\ channels' = s.channels
    /\ requests' = s.requests
    /\ calls' = s.calls

\* A handler the ioloop ran: an exception it lets out unwinds ioloop.start().
Handled(op, arg, s) ==
    /\ Store(s)
    /\ ioloop' = IF s.exc # "none" THEN "stopped" ELSE s.ioloop
    /\ last' = Step(op, arg, s)

\* A public method called from outside the loop: an exception goes to the caller.
Called(op, arg, s) ==
    /\ Store(s)
    /\ ioloop' = s.ioloop
    /\ last' = Step(op, arg, s)

\* Variant: a constructor that leaves the connection to be requested later.
Init_NoRequest ==
    /\ ecb \in [Slots -> BOOLEAN]
    /\ publish_channel = None
    /\ consum_channel = None
    /\ connection = [state |-> "pending", open_requests |-> 0, open_error |-> FALSE]
    /\ ioloop = "idle"
    /\ channels = <<>>
    /\ opened = {}
    /\ requests = <<>>
    /\ calls = <<>>
    /\ deliveries = <<>>
    /\ ncalls = 0
    /\ last = Step("init", <<>>, Session)

Init ==
    /\ ecb \in [Slots -> BOOLEAN]
    /\ publish_channel = None
    /\ consum_channel = None
    /\ connection = [state |-> "pending", open_requests |-> 1, open_error |-> FALSE]
    /\ ioloop = "idle"
    /\ channels = <<>>
    /\ opened = {}
    /\ requests = <<>>
    /\ calls = <<>>
    /\ deliveries = <<>>
    /\ ncalls = 0
    /\ last = Step("init", <<>>, Session)

Connect ==
    /\ ioloop \in {"idle", "stopped"}
    /\ Called("connect", <<>>, connect(Session))
    /\ UNCHANGED <<ecb, connection, opened, deliveries, ncalls>>

Disconnect ==
    /\ ncalls < MaxExternalCalls
    /\ ncalls' = ncalls + 1
    /\ Called("disconnect", <<>>, disconnect(Session))
    /\ UNCHANGED <<ecb, connection, opened, deliveries>>

LoopExit ==
    /\ ioloop = "stopping"
    /\ ioloop' = "stopped"
    /\ last' = Step("loop_exit", <<>>, Session)
    /\ UNCHANGED <<ecb, publish_channel, consum_channel, connection, channels,
                   opened, requests, calls, deliveries, ncalls>>

Publish ==
    /\ ncalls < MaxExternalCalls
    /\ ncalls' = ncalls + 1
    /\ \E message \in Bodies, routing_key \in RoutingKeys :
          Called("publish", <<message, routing_key>>,
                 publish_message_for_routing_key(Session, message, routing_key))
    /\ UNCHANGED <<ecb, connection, opened, deliveries>>

Register ==
    /\ ncalls < MaxExternalCalls
    /\ ncalls' = ncalls + 1
    /\ \E queue \in Queues, routing_key \in RoutingKeys :
          Called("register", <<queue, routing_key>>,
                 register_consumer_queue_for_routing_key(Session, queue, routing_key))
    /\ UNCHANGED <<ecb, connection, opened, deliveries>>

ConnectionOpen ==
    /\ Dispatching
    /\ connection.state = "pending"
    /\ connection' = [connection EXCEPT !.state = "open"]
    /\ Handled("connection_open", <<>>, on_connection_open(Session))
    /\ UNCHANGED <<ecb, opened, deliveries, ncalls>>

ConnectionOpenError ==
    /\ Dispatching
    /\ connection.state = "pending"
    /\ connection' = [connection EXCEPT !.state = "failed", !.open_error = TRUE]
    /\ \E error \in Errors, b \in Behaviours :
          Handled("connection_open_error", <<error>>,
                  on_connection_open_error(Session, error, b))
    /\ UNCHANGED <<ecb, opened, deliveries, ncalls>>

ConnectionClosed ==
    /\ Dispatching
    /\ connection.state \in {"pending", "open", "failed"}
    /\ connection' = [connection EXCEPT !.state = "closed"]
    /\ \E reason \in Reasons, b \in Behaviours :
          Handled("connection_closed", <<reason>>,
                  on_connection_closed(Session, reason, b))
    /\ UNCHANGED <<ecb, opened, deliveries, ncalls>>

Requested(handler) ==
    {ch \in 1..Len(channels) : channels[ch] = handler /\ ch \notin opened}

PublishChannelOpen(faults) ==
    /\ Dispatching
    /\ connection.state = "open"
    /\ \E ch \in Requested("on_publish_channel_open"), b \in Behaviours,
          accepted \in {TRUE} \cup {~f : f \in faults} :
          /\ opened' = opened \cup {ch}
          /\ Handled("publish_channel_open", <<ch, accepted>>,
                     on_publish_channel_open(Session, ch, accepted, b))
    /\ UNCHANGED <<ecb, connection, deliveries, ncalls>>

ConsumChannelOpen(faults) ==
    /\ Dispatching
    /\ connection.state = "open"
    /\ \E ch \in Requested("on_consum_channel_open"), b \in Behaviours,
          accepted \in {TRUE} \cup {~f : f \in faults} :
          /\ opened' = opened \cup {ch}
          /\ Handled("consum_channel_open", <<ch, accepted>>,
                     on_consum_channel_open(Session, ch, accepted, b))
    /\ UNCHANGED <<ecb, connection, deliveries, ncalls>>

\* The consumers the engine holds: the basic_consume requests it was given.
Consumers == {i \in 1..Len(requests) : requests[i].op = "basic_consume"}

Properties == {[delivery_mode |-> 2]}

MessageReceived ==
    /\ Dispatching
    /\ connection.state = "open"
    /\ Len(deliveries) < MaxDeliveries
    /\ \E i \in Consumers, routing_key \in RoutingKeys, properties \in Properties,
          body \in Bodies, b \in Behaviours :
          LET channel == requests[i].ch
              method == [routing_key |-> routing_key,
                         delivery_tag |-> Len(deliveries) + 1]
              args == <<channel, method, properties, body>>
          IN  /\ deliveries' = Append(deliveries, args)
              /\ Handled("message_received", args,
                         icb_message_received_inform_callback(
                             Session, channel, method, properties, body, b))
    /\ UNCHANGED <<ecb, connection, opened, ncalls>>

Notification(faults) ==
    \/ ConnectionOpen
    \/ ConnectionOpenError
    \/ ConnectionClosed
    \/ PublishChannelOpen(faults)
    \/ ConsumChannelOpen(faults)
    \/ MessageReceived

Caller == Connect \/ Disconnect \/ Publish \/ Register

\* The engine takes every request the session submits.
Next == Notification({}) \/ Caller \/ LoopExit

Spec == Init /\ [][Next]_vars

\* The engine may refuse an exchange_declare by raising.
NextFault == Notification({TRUE}) \/ Caller \/ LoopExit

SpecFault == Init /\ [][NextFault]_vars

\* The ioloop is scheduled: a requested stop is carried out.  Sessions built
\* with all five callbacks or with none.
InitFair ==
    /\ Init
    /\ ecb \in {[slot \in Slots |-> TRUE], [slot \in Slots |-> FALSE]}

FairSpec == InitFair /\ [][Next]_vars /\ WF_vars(LoopExit)

(***************************************************************************)
(* Properties.                                                             *)
(***************************************************************************)
CallsOf(slot) ==
    LET Is(c) == c.callback = slot IN SelectSeq(calls, Is)

Count(slot) == Len(CallsOf(slot))

RequestsOf(op) ==
    LET Is(r) == r.op = op IN SelectSeq(requests, Is)

HandlerOps == {"connection_open", "connection_open_error", "connection_closed",
               "publish_channel_open", "consum_channel_open", "message_received"}

PublishOpened == \E ch \in opened : channels[ch] = "on_publish_channel_open"
ConsumOpened == \E ch \in opened : channels[ch] = "on_consum_channel_open"

\* C1: once a connection-closed notification with reason r has been handled,
\* both channel handles are absent and the on-connection-closed callback, when
\* the slot holds one, has been invoked exactly once, with r.
C1_ClosedClearsHandles ==
    last.op = "connection_closed" =>
        /\ publish_channel = None
        /\ consum_channel = None
        /\ ecb["connection_closed"] =>
              CallsOf("connection_closed")
                  = <<[callback |-> "connection_closed", args |-> last.arg]>>

\* C1, as far as the code goes: the callback is invoked exactly once with r in
\* every case, and the handles are absent whenever the callback did not let a
\* BaseException out.
C1_ClosedClearsHandlesUnlessAborted ==
    last.op = "connection_closed" =>
        /\ last.exc = "none" => publish_channel = None /\ consum_channel = None
        /\ ecb["connection_closed"] =>
              CallsOf("connection_closed")
                  = <<[callback |-> "connection_closed", args |-> last.arg]>>
        /\ ~ecb["connection_closed"] => Count("connection_closed") = 0

\* C2: while the connection is open, a channel whose open notification was
\* handled has its handle present and its ready-callback invoked exactly once,
\* whichever of the two notifications came first; a ready-callback is never
\* invoked for a channel that has not opened.
C2_BothChannelsReady ==
    /\ Count("publish_channel_has_been_opend")
          = (IF PublishOpened /\ ecb["publish_channel_has_been_opend"] THEN 1 ELSE 0)
    /\ Count("consum_channel_has_been_opend")
          = (IF ConsumOpened /\ ecb["consum_channel_has_been_opend"] THEN 1 ELSE 0)
    /\ connection.state = "open" =>
          /\ PublishOpened =>
                /\ publish_channel \in opened
                /\ channels[publish_channel] = "on_publish_channel_open"
          /\ ConsumOpened =>
                /\ consum_channel \in opened
                /\ channels[consum_channel] = "on_consum_channel_open"

\* Both channels Ready, the consume channel having opened first.
C2_Witness ==
    /\ connection.state = "open"
    /\ PublishOpened /\ ConsumOpened
    /\ publish_channel # None /\ consum_channel # None
    /\ Len(calls) >= 2
    /\ calls[1].callback = "consum_channel_has_been_opend"
    /\ calls[2].callback = "publish_channel_has_been_opend"

C4_PublishNotReady ==
    [][/\ (last'.op = "publish" /\ publish_channel = None) =>
              /\ last'.exc = "AttributeError"
              /\ UNCHANGED <<ecb, publish_channel, consum_channel, connection,
                             ioloop, channels, opened, requests, calls>>
       /\ (last'.inner.op = "publish" /\ last'.inner.chan = None) =>
              /\ last'.inner.exc = "AttributeError"
              /\ last'.inner.submitted = 0
              /\ RequestsOf("basic_publish")' = RequestsOf("basic_publish")]_vars

\* publish was called after the connection closed, and raised.
C4_Witness ==
    /\ last.op = "publish"
    /\ last.exc = "AttributeError"
    /\ connection.state = "closed"
    /\ PublishOpened

\* C5: registerConsumerQueue with the consume-channel handle absent raises
\* (AttributeError), submits none of its three requests and changes nothing of
\* the session, also when the publish channel is already Ready.
C5_RegisterNotReady ==
    [][/\ (last'.op = "register" /\ consum_channel = None) =>
              /\ last'.exc = "AttributeError"
              /\ UNCHANGED <<ecb, publish_channel, consum_channel, connection,
                             ioloop, channels, opened, requests, calls>>
       /\ (last'.inner.op = "register" /\ last'.inner.chan = None) =>
              /\ last'.inner.exc = "AttributeError"
              /\ last'.inner.submitted = 0
              /\ RequestsOf("queue_declare")' = RequestsOf("queue_declare")
              /\ RequestsOf("queue_bind")' = RequestsOf("queue_bind")
              /\ RequestsOf("basic_consume")' = RequestsOf("basic_consume")]_vars

\* registerConsumerQueue raised while the publish channel was Ready.
C5_Witness ==
    /\ last.op = "register"
    /\ last.exc = "AttributeError"
    /\ consum_channel = None
    /\ publish_channel # None
    /\ connection.state = "open"

\* The handler the ioloop runs for a notification.
Handle(s, op, arg, b) ==
    CASE op = "connection_open"       -> on_connection_open(s)
      [] op = "connection_open_error" -> on_connection_open_error(s, arg[1], b)
      [] op = "connection_closed"     -> on_connection_closed(s, arg[1], b)
      [] op = "publish_channel_open"  -> on_publish_channel_open(s, arg[1], arg[2], b)
      [] op = "consum_channel_open"   -> on_consum_channel_open(s, arg[1], arg[2], b)
      [] op = "message_received"      ->
            icb_message_received_inform_callback(s, arg[1], arg[2], arg[3], arg[4], b)

AllAbsent == \A slot \in Slots : ~ecb[slot]

\* C6: a session whose five slots are all empty never invokes a callback and no
\* handler of it fails; each handler leaves the two handles as the same handler
\* leaves them in a session that holds callbacks (which return, raise an
\* Exception or call a public method).
C6_AbsentCallbacks ==
    [][AllAbsent =>
          /\ calls' = <<>>
          /\ last'.op \in HandlerOps =>
                /\ last'.ran = "none"
                /\ last'.exc = "none"
                /\ \A b \in Behaviours \ {"exit"} :
                      LET with == [Session EXCEPT !.ecb = [slot \in Slots |-> TRUE]]
                          t == Handle(with, last'.op, last'.arg, b)
                      IN  /\ publish_channel' = t.publish_channel
                          /\ consum_channel' = t.consum_channel]_vars

\* All slots empty, driven through open, both channels Ready, and close.
C6_Witness ==
    /\ AllAbsent
    /\ last.op = "connection_closed"
    /\ PublishOpened /\ ConsumOpened
    /\ publish_channel = None /\ consum_channel = None
    /\ calls = <<>>

\* C7: the on-message-received callback is invoked once per delivered message,
\* with the channel, method, properties and body the engine delivered, in
\* delivery order; the session never submits an acknowledgment or a rejection.
C7_MessagesForwarded ==
    /\ ecb["message_received"] =>
          [i \in 1..Count("message_received") |-> CallsOf("message_received")[i].args]
              = deliveries
    /\ ~ecb["message_received"] => Count("message_received") = 0
    /\ \A i \in 1..Len(requests) :
          requests[i].op \notin {"basic_ack", "basic_nack", "basic_reject"}

\* Two messages delivered and forwarded.
C7_Witness ==
    /\ Len(deliveries) = 2
    /\ Count("message_received") = 2
    /\ CallsOf("message_received")[2].args[2].delivery_tag = 2

\* C8: connect() is inside ioloop.start() for as long as the loop runs;
\* disconnect(), from outside or from inside a callback, turns a running loop
\* to stopping; and a loop asked to stop does stop, so connect() returns.
StopRequested == last.op = "disconnect" \/ last.inner.op = "disconnect"

C8_DisconnectEndsConnect ==
    /\ [][/\ (StopRequested' /\ ioloop = "running") => ioloop' = "stopping"
          /\ (ioloop \in {"running", "stopping"} /\ ioloop' = "stopped") =>
                (last'.op = "loop_exit" \/ last'.exc # "none")]_vars
    /\ ((StopRequested /\ ioloop \in {"running", "stopping"}) ~> (ioloop = "stopped"))

\* The loop was stopped from inside a callback and connect() has returned.
C8_Witness ==
    /\ last.op = "loop_exit"
    /\ ioloop = "stopped"
    /\ calls # <<>>
    /\ ncalls = 0

\* C9: once a connection-open-error notification has been handled, the
\* on-connection-open-error callback (if any) has been invoked exactly once, with
\* the error; no channel was requested, no second connection-open was
\* submitted, both handles are absent and no ready-callback has been invoked.
C9_OpenErrorIsTerminal ==
    /\ last.op = "connection_open_error" =>
          /\ connection.open_error
          /\ ecb["connection_open_error"] =>
                calls = <<[callback |-> "connection_open_error", args |-> last.arg]>>
    /\ connection.open_error =>
          /\ Count("connection_open_error")
                = (IF ecb["connection_open_error"] THEN 1 ELSE 0)
          /\ channels = <<>>
          /\ opened = {}
          /\ connection.open_requests = 1
          /\ publish_channel = None /\ consum_channel = None
          /\ Count("publish_channel_has_been_opend") = 0
          /\ Count("consum_channel_has_been_opend") = 0
          /\ RequestsOf("exchange_declare") = <<>>

\* The open error was reported and the session went on to further steps.
C9_Witness ==
    /\ connection.open_error
    /\ connection.state = "closed"
    /\ Count("connection_open_error") = 1
    /\ Count("connection_closed") = 1

Declared(ch) ==
    \E i \in 1..Len(requests) :
        requests[i].op = "exchange_declare" /\ requests[i].ch = ch

\* C10: a channel handle is present only if that channel's open notification
\* was received and the exchange-declare request on it was submitted.
C10_HandleImpliesDeclared ==
    /\ publish_channel # None =>
          /\ publish_channel \in opened
          /\ channels[publish_channel] = "on_publish_channel_open"
          /\ Declared(publish_channel)
    /\ consum_channel # None =>
          /\ consum_channel \in opened
          /\ channels[consum_channel] = "on_consum_channel_open"
          /\ Declared(consum_channel)

DeclareOn(ch) ==
    [op |-> "exchange_declare", ch |-> ch, exchange |-> rabbitmq_exchange,
     exchange_type |-> rabbitmq_exchange_type, durable |-> TRUE]

PublishOn(ch, message, routing_key) ==
    [op |-> "basic_publish", ch |-> ch, exchange |-> rabbitmq_exchange,
     routing_key |-> routing_key, body |-> message, delivery_mode |-> 2]

RegisterOn(ch, queue, routing_key) ==
    <<[op |-> "queue_declare", ch |-> ch, queue |-> queue],
      [op |-> "queue_bind", ch |-> ch, exchange |-> rabbitmq_exchange,
       queue |-> queue, routing_key |-> routing_key],
      [op |-> "basic_consume", ch |-> ch, queue |-> queue,
       on_message_callback |-> "icb_message_received_inform_callback"]>>

\* C11: a channel-open handler stores the handle, submits the durable topic
\* exchange-declare on that channel and only then invokes the ready-callback:
\* a publish called from inside the publish-ready callback (a register from
\* inside the consume-ready callback) finds its handle present and its request
\* follows the declare in the request log.
C11_ReadyCallbackAfterDeclare ==
    [][/\ last'.op = "publish_channel_open" =>
              LET ch == last'.arg[1]
                  slot == "publish_channel_has_been_opend"
              IN  /\ publish_channel' = ch
                  /\ Len(requests') > Len(requests)
                  /\ SubSeq(requests', 1, Len(requests) + 1)
                        = Append(requests, DeclareOn(ch))
                  /\ ecb[slot] =>
                        calls' = Append(calls, [callback |-> slot, args |-> <<>>])
                  /\ last'.inner.op = "publish" =>
                        /\ last'.inner.chan = ch
                        /\ last'.inner.exc = "none"
                        /\ requests' = requests \o
                              <<DeclareOn(ch),
                                PublishOn(ch, CallbackMessage, CallbackRoutingKey)>>
       /\ last'.op = "consum_channel_open" =>
              LET ch == last'.arg[1]
                  slot == "consum_channel_has_been_opend"
              IN  /\ consum_channel' = ch
                  /\ Len(requests') > Len(requests)
                  /\ SubSeq(requests', 1, Len(requests) + 1)
                        = Append(requests, DeclareOn(ch))
                  /\ ecb[slot] =>
                        calls' = Append(calls, [callback |-> slot, args |-> <<>>])
                  /\ last'.inner.op = "register" =>
                        /\ last'.inner.chan = ch
                        /\ last'.inner.exc = "none"
                        /\ requests' = requests \o <<DeclareOn(ch)>> \o
                              RegisterOn(ch, CallbackQueue, CallbackBinding)]_vars

\* The publish-ready callback published, on the channel just stored.
C11_Witness ==
    /\ last.op = "publish_channel_open"
    /\ last.inner.op = "publish"
    /\ last.inner.chan = publish_channel
    /\ last.inner.exc = "none"
    /\ last.inner.submitted = 1
    /\ requests[Len(requests)].op = "basic_publish"

\* C12: while the on-connection-closed callback runs, both handles are already
\* absent: a publish or a register called from inside it raises and submits
\* nothing.
C12_HandlesAbsentInClosedCallback ==
    (last.op = "connection_closed" /\ last.inner.op \in {"publish", "register"}) =>
        /\ last.inner.chan = None
        /\ last.inner.exc = "AttributeError"
        /\ last.inner.submitted = 0

\* C13: disconnect() only asks the ioloop to stop: called from outside it leaves
\* the connection, the handles, the slots, the requests and the callback log as
\* they are; called from inside a callback it adds nothing to what the handler
\* does with a callback that just returns; and a handle goes from present to
\* absent only in a connection-closed step.
C13_DisconnectOnlyStopsLoop ==
    [][/\ last'.op = "disconnect" =>
              /\ UNCHANGED <<ecb, publish_channel, consum_channel, connection,
                             channels, opened, requests, calls, deliveries>>
              /\ ioloop' = (IF ioloop = "running" THEN "stopping" ELSE ioloop)
       /\ last'.inner.op = "disconnect" =>
              LET t == Handle(Session, last'.op, last'.arg, "return")
              IN  /\ publish_channel' = t.publish_channel
                  /\ consum_channel' = t.consum_channel
                  /\ channels' = t.channels
                  /\ requests' = t.requests
                  /\ calls' = t.calls
                  /\ ecb' = ecb
                  /\ ioloop' = (IF ioloop = "running" THEN "stopping" ELSE ioloop)
       /\ (\/ publish_channel # None /\ publish_channel' = None
           \/ consum_channel # None /\ consum_channel' = None) =>
              last'.op = "connection_closed"]_vars

\* disconnect() was called with both channels Ready, and they still are.
C13_Witness ==
    /\ last.op = "disconnect"
    /\ ioloop = "stopping"
    /\ publish_channel # None /\ consum_channel # None
    /\ connection.state = "open"

\* C14: registerConsumerQueue with the consume channel Ready submits, on the
\* consume channel and in this order, queue_declare, queue_bind (configured
\* exchange, given routing key) and basic_consume (internal message handler),
\* and changes nothing else; in the request log every queue_declare starts such
\* a triple, so several registrations appear as triples in call order.
C14_RegisterSubmitsTriple ==
    /\ [][/\ (last'.op = "register" /\ consum_channel # None) =>
                /\ last'.exc = "none"
                /\ requests' = requests \o
                      RegisterOn(consum_channel, last'.arg[1], last'.arg[2])
                /\ UNCHANGED <<ecb, publish_channel, consum_channel, connection,
                               ioloop, channels, opened, calls, deliveries>>
          /\ (last'.inner.op = "register" /\ last'.inner.chan # None) =>
                /\ last'.inner.exc = "none"
                /\ last'.inner.submitted = 3
                /\ SubSeq(requests', Len(requests') - 2, Len(requests'))
                      = RegisterOn(last'.inner.chan, CallbackQueue, CallbackBinding)]_vars
    /\ [](/\ \A i \in 1..Len(requests) :
                requests[i].op = "queue_declare" =>
                    /\ i + 2 <= Len(requests)
                    /\ requests[i + 1].op = "queue_bind"
                    /\ SubSeq(requests, i, i + 2)
                          = RegisterOn(requests[i].ch, requests[i].queue,
                                       requests[i + 1].routing_key)
          /\ Len(RequestsOf("queue_bind")) = Len(RequestsOf("queue_declare"))
          /\ Len(RequestsOf("basic_consume")) = Len(RequestsOf("queue_declare")))

\* Two registrations, the later one from outside the loop.
C14_Witness ==
    /\ last.op = "register"
    /\ last.exc = "none"
    /\ Len(RequestsOf("basic_consume")) = 2
    /\ requests[Len(requests)].op = "basic_consume"

\* C15 as stated: as long as connect() has not been called, no connection-open
\* request has been submitted.
C15_RequestSubmittedByConnect ==
    ioloop = "idle" => connection.open_requests = 0

\* C15, amended: the one connection-open request is submitted by the
\* constructor; before connect() the connection is pending and nothing has been
\* dispatched; connect() submits nothing and only starts the ioloop.
C15_RequestSubmittedAtConstruction ==
    /\ [](connection.open_requests = 1)
    /\ [](ioloop = "idle" =>
            /\ connection.state = "pending"
            /\ channels = <<>>
            /\ calls = <<>>
            /\ last.op \notin HandlerOps)
    /\ [][last'.op = "connect" =>
            /\ ioloop \in {"idle", "stopped"}
            /\ ioloop' = "running"
            /\ UNCHANGED <<ecb, publish_channel, consum_channel, connection,
                           channels, opened, requests, calls, deliveries>>]_vars

\* connect() was called on the fresh session: the loop runs, the request made
\* at construction is still pending.
C15_Witness ==
    /\ last.op = "connect"
    /\ ioloop = "running"
    /\ connection.state = "pending"
    /\ connection.open_requests = 1

\* C16: once a connection-closed notification has been handled, both handles
\* are absent in every later state, and no ready-callback is invoked after the
\* closed-callback.
C16_ClosedIsTerminal ==
    connection.state = "closed" =>
        /\ publish_channel = None
        /\ consum_channel = None
        /\ \A i, j \in 1..Len(calls) :
              (i < j /\ calls[i].callback = "connection_closed") =>
                  calls[j].callback \notin {"publish_channel_has_been_opend",
                                            "consum_channel_has_been_opend"}

\* C17: when the on-connection-closed callback raises, or a public method it
\* calls raises, both handles are absent once the notification has been handled.
C17_ClearedThoughCallbackRaises ==
    (/\ last.op = "connection_closed"
     /\ (last.ran \in {"raise", "exit"} \/ last.inner.exc # "none")) =>
        /\ publish_channel = None
        /\ consum_channel = None

StoredBy(ch, handler) == ch \in opened /\ channels[ch] = handler

\* C18: every basic_publish in the request log is on the channel the
\* publish-channel-open handler stored, names the configured exchange and
\* carries delivery mode 2; every queue_declare, queue_bind and basic_consume is
\* on the channel the consume-channel-open handler stored; and a publish with
\* the publish channel Ready appends exactly one request, with the caller's
\* routing key and body, and changes nothing else.
C18_ChannelSeparation ==
    /\ [](\A i \in 1..Len(requests) :
            /\ requests[i].op = "basic_publish" =>
                  /\ StoredBy(requests[i].ch, "on_publish_channel_open")
                  /\ requests[i].exchange = rabbitmq_exchange
                  /\ requests[i].delivery_mode = 2
            /\ requests[i].op \in {"queue_declare", "queue_bind", "basic_consume"} =>
                  StoredBy(requests[i].ch, "on_consum_channel_open"))
    /\ [][/\ (last'.op = "publish" /\ publish_channel # None) =>
                /\ last'.exc = "none"
                /\ requests' = Append(requests,
                      PublishOn(publish_channel, last'.arg[1], last'.arg[2]))
                /\ UNCHANGED <<ecb, publish_channel, consum_channel, connection,
                               ioloop, channels, opened, calls, deliveries>>
          /\ (last'.inner.op = "publish" /\ last'.inner.chan # None) =>
                /\ last'.inner.exc = "none"
                /\ last'.inner.submitted = 1
                /\ requests'[Len(requests')]
                      = PublishOn(last'.inner.chan, CallbackMessage, CallbackRoutingKey)]_vars

\* Both channels in use: a registration on the consume channel and a publish,
\* made from outside the loop, on the publish channel.
C18_Witness ==
    /\ last.op = "publish"
    /\ last.exc = "none"
    /\ Len(RequestsOf("basic_consume")) >= 1
    /\ requests[Len(requests)].op = "basic_publish"
    /\ requests[Len(requests)].ch = publish_channel
    /\ publish_channel # consum_channel
    /\ consum_channel # None

====
